---- MODULE Spec2Model ----
(***************************************************************************)
(* Lead CRM: email synchronisation and reply notifications.                *)
(*                                                                         *)
(* Server side: the lead and email tables (server/storage.ts), the         *)
(* send-email and email-sync request handlers (server/routes.ts) and the   *)
(* Microsoft Graph mailbox adapter (server/outlook.ts).                    *)
(* Client side: the notification poller (use-email-notifications.ts) and   *)
(* the unread-count store (notificationStore.ts).                          *)
(* The notification buffer and the scheduled reconciliation live in        *)
(* server/index.ts, which is not among the sources; they are modelled from *)
(* sections 4.2 and 4.3 of the specification.                              *)
(***************************************************************************)
EXTENDS Integers, Sequences, FiniteSets, Bags, TLC

(* ----------------------------- bounds --------------------------------- *)
MaxClock == 2
MaxMailbox == 2
MaxSends == 2
MaxInflight == 2
MaxRows == 2       \* rows in one uploaded sheet
MaxUnread == 7     \* unread replies counted by the client store
MaxTokens == 3     \* access tokens acquired
MaxLife == 2       \* lifetime of an access token, in clock ticks

(* ------------------------- program constants -------------------------- *)
\* .top(50) page of the inbox query
Top == 50
\* default sync window, 24 * 60 * 60 * 1000 ms, in clock units
Day == 2
\* retained size of the notification buffer (section 4.3: "must cap")
BufferCap == 2

Null == "null"
Hour == 2          \* 3600000 ms, in clock ticks
NoSince == -1
Procs == {1, 2}

LeadIds == {"L1", "L2"}
leadEmail == [l \in LeadIds |-> IF l = "L1" THEN "a@b.com" ELSE "X@Y.com"]

\* inbound messages the provider may deliver: two ids from a lead's address,
\* one id delivered with two different bodies, one unknown sender, one
\* message without a sender address
Messages ==
  { [id |-> "m1", from |-> "a@b.com", body |-> "b1"],
    [id |-> "m1", from |-> "a@b.com", body |-> "b2"],
    [id |-> "m2", from |-> "a@b.com", body |-> "b1"],
    [id |-> "m3", from |-> "x@y.com", body |-> "b1"],
    [id |-> "m4", from |-> Null, body |-> "b1"],
    [id |-> "m5", from |-> "X@Y.com", body |-> "b1"] }
SentIds == <<"s1", "s2", "s3", "s4">>
UserStatuses == {"Closed"}

VARIABLES
  clock,          \* server wall clock
  mailbox,        \* provider inbox: sequence of messages in arrival order
  status,         \* leads.status by lead id
  emails,         \* emails table: sequence of rows in insertion order
  notifications,  \* in-memory notification buffer
  lastSent,       \* provider Sent Items: id of the most recent item
  nSent,          \* number of messages the provider accepted
  sendResp,       \* HTTP status of the last send-email response
  pc,             \* position of each sync request
  newEmails,      \* per sync request: fetched messages
  idx,            \* per sync request: loop index into newEmails
  matchedCount,
  savedCount,
  lead,           \* per sync request: lead matched for the current message
  result,         \* per sync request: last HTTP response
  emailsAtStart,  \* history: emails table when the request started
  basis,          \* history: prevFetched when the request started
  window,         \* history: whether the fetch succeeded, and its since
  track,          \* history switch: whether pass history is recorded
  prevFetched,    \* history: window of the pass that just ended successfully
  schedQueue,     \* scheduled reconciliation: messages still to handle
  schedFirst,     \* history: id of the first Email the running scheduled pass saved
  recorded,       \* history: ids of the notifications ever recorded
  loaded,         \* client: the page is open and the poller is mounted
  lastCheck,      \* client: lastCheckRef.current
  shown,          \* client: shownNotificationsRef.current
  perLeadUnread,  \* client store: state.perLeadUnread
  unreadTotal,    \* client store: state.unreadTotal
  inflight,       \* client: feed responses not yet handled
  toasts,         \* history: alerts raised in this page session, in order
  alerted,        \* history: notification ids ever alerted on the client
  replyResult,    \* what the last sendEmail call with inReplyTo returned
  leadRows,       \* leads table: the rows created by imports, in order
  importResp,     \* last response of POST /api/import/file (0: none yet)
  upload,         \* the import request being handled, if any
  lostAt,         \* history: where the last pass that ended in the catch was
  clicked,        \* history: the last bell click, with the count it cleared
  gridResult,     \* the last sendEmailViaSendGridAuto call and its outcome
  cachedAccessToken, \* token cache of the Graph adapter (Null: none)
  tokenExpiry,    \* its recorded expiry (Null: none)
  tokenPc,        \* per caller of getAccessToken: "idle" or "acquiring"
  handed,         \* per caller: what its last getAccessToken call returned
  issued,         \* history: the expiry recorded with each acquired token
  nTokens         \* tokens acquired so far

vars == <<clock, mailbox, status, emails, notifications, lastSent, nSent,
          sendResp, pc, newEmails, idx, matchedCount, savedCount, lead,
          result, emailsAtStart, basis, window, prevFetched, schedQueue,
          schedFirst, recorded, loaded, lastCheck, shown, perLeadUnread,
          unreadTotal, inflight, toasts, alerted, track, replyResult,
          leadRows, importResp, upload, lostAt, clicked,
          gridResult, cachedAccessToken, tokenExpiry, tokenPc, handed, issued,
          nTokens>>

syncVars == <<pc, newEmails, idx, matchedCount, savedCount, lead, result,
              emailsAtStart, basis, window>>

schedVars == <<schedQueue, schedFirst, recorded>>

histVars == <<prevFetched, track>>

adapterVars == <<replyResult, gridResult>>

importVars == <<leadRows, importResp, upload>>

failVars == <<lostAt>>

bellVars == <<clicked>>

tokenVars ==
  <<cachedAccessToken, tokenExpiry, tokenPc, handed, issued, nTokens>>

\* the state of the adapters, the import route and the histories, which the
\* routes and the poller leave alone
quietVars == <<adapterVars, importVars, failVars, bellVars, tokenVars>>

clientVars == <<loaded, lastCheck, shown, perLeadUnread, unreadTotal, inflight,
                toasts, alerted>>

(* ----------------------------- helpers -------------------------------- *)

Reverse(s) == [i \in 1..Len(s) |-> s[Len(s) + 1 - i]]

FirstN(s, n) == IF Len(s) <= n THEN s ELSE SubSeq(s, 1, n)

NoPrev == [valid |-> FALSE, since |-> 0]
\* no notification of the bell has been clicked
NoClick == [leadId |-> Null, count |-> 0]

\* no pass has ended in the catch
NoLoss == [saved |-> 0, id |-> Null]

NoWindow == [ok |-> FALSE, fetch |-> "none", since |-> 0]

AllIdle == \A p \in Procs : pc[p] = "idle"

(* ------------------------------ storage ------------------------------- *)
\* lower(address), on the addresses of the model
lower(email) == IF email = "X@Y.com" THEN "x@y.com" ELSE email

\* mutant: addresses are compared without regard to case
getLeadByEmail_anyCase(email) ==
  LET hits == {l \in LeadIds : lower(leadEmail[l]) = lower(email)}
  IN  IF hits = {} THEN Null ELSE CHOOSE l \in hits : TRUE

\* mutant: the where clause is lost, the first lead row is returned
getLeadByEmail_first(email) == CHOOSE l \in LeadIds : TRUE

\* select from leads where email = :email, first row
getLeadByEmail(email) ==
  LET hits == {l \in LeadIds : leadEmail[l] = email}
  IN  IF hits = {} THEN Null ELSE CHOOSE l \in hits : TRUE

\* mutant: the existence check looks at sent rows only
getEmailByMessageId_sentOnly(messageId) ==
  \E i \in DOMAIN emails :
    emails[i].messageId = messageId /\ emails[i].direction = "sent"

\* mutant: the existence check never finds a row
getEmailByMessageId_never(messageId) == FALSE

\* select from emails where message_id = :messageId, first row
getEmailByMessageId(messageId) ==
  \E i \in DOMAIN emails : emails[i].messageId = messageId

\* insert into emails ... returning
createEmail(leadId, direction, messageId, body) ==
  Append(emails, [id |-> Len(emails) + 1, leadId |-> leadId,
                  direction |-> direction, messageId |-> messageId,
                  body |-> body])

\* mutant: the update has no where clause
updateLeadStatus_all(id, s) == [l \in LeadIds |-> s]

\* mutant: the update matches no row
updateLeadStatus_noRow(id, s) == status

\* update leads set status = :status where id = :id
updateLeadStatus(id, s) ==
  [l \in LeadIds |-> IF l = id THEN s ELSE status[l]]

(* ------------------------- mailbox adapter ---------------------------- *)
\* Inbox messages with receivedDateTime gt since, newest first, first page
fetchNewEmails(since) ==
  FirstN(Reverse(SelectSeq(mailbox, LAMBDA m : m.received > since)), Top)

(* ----------------------------- environment ---------------------------- *)
Tick ==
  /\ clock < MaxClock
  /\ clock' = clock + 1
  /\ UNCHANGED <<track, quietVars, schedVars, clientVars, mailbox, status,
                 emails, notifications, lastSent, nSent, sendResp, syncVars,
                 prevFetched>>

\* a message arrives in the provider inbox
Deliver(m) ==
  /\ Len(mailbox) < MaxMailbox
  /\ mailbox' = Append(mailbox, [id |-> m.id, from |-> m.from, body |-> m.body,
                                 received |-> clock])
  /\ prevFetched' = NoPrev
  /\ UNCHANGED <<track, quietVars, schedVars, clientVars, clock, status,
                 emails, notifications, lastSent, nSent, sendResp, syncVars>>

(* ---------------- PATCH /api/leads/:id/status ------------------------- *)
SetStatus(l, s) ==
  /\ status[l] # s
  /\ status' = updateLeadStatus(l, s)
  /\ prevFetched' = NoPrev
  /\ UNCHANGED <<track, quietVars, schedVars, clientVars, clock, mailbox,
                 emails, notifications, lastSent, nSent, sendResp, syncVars>>

(* ---------------- POST /api/leads/:id/send-email ---------------------- *)
\* outcome of the provider send:
\*   "unconfigured"  no Graph client: logged, success without message id
\*   "throw"         the send failed: the handler answers 500
\*   "saved"         sent; the Sent Items lookup returns this message
\*   "stale"         sent; the Sent Items lookup runs before the provider has
\*                   saved this message and returns the previous newest item
\*   "noid"          sent; the Sent Items lookup failed or found nothing
SendOutcomes == {"unconfigured", "throw", "saved", "stale", "noid", "nostatus"}

SendEmail(leadId, fieldsOk, outcome) ==
  /\ nSent < MaxSends
  /\ IF leadId \notin LeadIds
     THEN /\ sendResp' = 404
          /\ UNCHANGED <<emails, status, lastSent, nSent>>
     ELSE IF ~fieldsOk
     THEN /\ sendResp' = 400
          /\ UNCHANGED <<emails, status, lastSent, nSent>>
     ELSE IF outcome = "throw"
     THEN /\ sendResp' = 500
          /\ UNCHANGED <<emails, status, lastSent, nSent>>
     ELSE IF outcome = "nostatus"
     THEN \* createEmail resolved, updateLeadStatus rejected: caught, 500
          /\ emails' = createEmail(leadId, "sent", SentIds[nSent + 1], "sb")
          /\ lastSent' = SentIds[nSent + 1]
          /\ nSent' = nSent + 1
          /\ sendResp' = 500
          /\ UNCHANGED status
     ELSE LET sentNow == outcome \in {"saved", "stale", "noid"}
              thisId == SentIds[nSent + 1]
              messageId == CASE outcome = "saved" -> thisId
                             [] outcome = "stale" -> lastSent
                             [] OTHER -> Null
          IN  /\ emails' = createEmail(leadId, "sent", messageId, "sb")
              /\ status' = updateLeadStatus(leadId, "Contacted")
              /\ lastSent' = IF sentNow THEN thisId ELSE lastSent
              /\ nSent' = nSent + 1
              /\ sendResp' = 200
  /\ sendResp' # sendResp \/ emails' # emails
  /\ prevFetched' = NoPrev
  /\ UNCHANGED <<track, quietVars, schedVars, clientVars, clock, mailbox,
                 notifications, syncVars>>

(* ------------------------- provider adapters -------------------------- *)
Providers == {"microsoft", "sendgrid"}
\* what the provider does with a request that reaches it
GraphNet == {"throw", "saved", "stale", "noid"}
\*   "autherr"    401/403 whose message has one of the words the adapter
\*                 looks for (unauthorized, forbidden, authorization, 401, 403)
\*   "authquiet"  401/403 whose message has none of them
\*   "othererr"   another failure, none of the words in its message
\*   "othernoisy" another failure whose message has one of the words
GridNet == {"ok", "autherr", "authquiet", "othererr", "othernoisy"}

\* sendEmailViaSendGrid: missing key or sender throws inside the try, and
\* the catch turns every error into success: false
sendEmailViaSendGrid(configured, net) ==
  IF ~configured THEN [success |-> FALSE, error |-> "notconfigured"]
  ELSE IF net = "ok" THEN [success |-> TRUE, error |-> Null]
  ELSE [success |-> FALSE, error |-> net]

\* sendEmailViaSendGridSMTP: the same configuration test, then the relay
sendEmailViaSendGridSMTP(configured, net) ==
  IF ~configured THEN [success |-> FALSE, error |-> "notconfigured"]
  ELSE IF net = "ok" THEN [success |-> TRUE, error |-> Null]
  ELSE [success |-> FALSE, error |-> net]

\* /(unauthorized|forbidden|authorization|401|403)/i.test(error)
isAuthError(error) == error \in {"autherr", "othernoisy"}

\* (process.env.SENDGRID_TRANSPORT || 'auto').toLowerCase()
Transports == {"auto", "api", "smtp"}

\* sendEmailViaSendGridAuto under a transport setting: the result returned
\* and the transports attempted, in order
autoTransport(transport, configured, net, smtpNet) ==
  LET apiResult == sendEmailViaSendGrid(configured, net)
      smtpResult == sendEmailViaSendGridSMTP(configured, smtpNet)
  IN  IF transport = "smtp" THEN [result |-> smtpResult, attempts |-> <<"smtp">>]
      ELSE IF transport = "api" THEN [result |-> apiResult, attempts |-> <<"api">>]
      ELSE IF apiResult.success THEN [result |-> apiResult, attempts |-> <<"api">>]
      ELSE IF apiResult.error # Null /\ isAuthError(apiResult.error)
      THEN [result |-> smtpResult, attempts |-> <<"api", "smtp">>]
      ELSE [result |-> apiResult, attempts |-> <<"api">>]

\* sendEmailViaSendGridAuto with SENDGRID_TRANSPORT unset
sendEmailViaSendGridAuto(configured, net, smtpNet) ==
  autoTransport("auto", configured, net, smtpNet).result

NoGrid == [transport |-> "none", configured |-> FALSE, net |-> "none",
           smtpNet |-> "none", result |-> [success |-> FALSE, error |-> Null],
           attempts |-> <<>>]

\* a call of sendEmailViaSendGridAuto, with what it was given and what it did
GridSend(transport, configured, net, smtpNet) ==
  /\ gridResult' =
       LET out == autoTransport(transport, configured, net, smtpNet)
       IN  [transport |-> transport, configured |-> configured, net |-> net,
            smtpNet |-> smtpNet, result |-> out.result, attempts |-> out.attempts]
  /\ UNCHANGED <<track, importVars, failVars, bellVars, tokenVars, schedVars,
                 clientVars, clock, mailbox, status, emails, notifications,
                 lastSent, nSent, sendResp, syncVars, prevFetched,
                 replyResult>>

\* mutant: the route does not look at result.success
routeOutcome_ignoreFailure(provider, configured, net, smtpNet) ==
  IF provider = "sendgrid" THEN "saved"
  ELSE IF ~configured THEN "unconfigured" ELSE net

\* what the send-email route gets from the selected provider
routeOutcome(provider, configured, net, smtpNet) ==
  IF provider = "sendgrid"
  THEN IF sendEmailViaSendGridAuto(configured, net, smtpNet).success
       THEN "saved" ELSE "throw"
  ELSE IF ~configured THEN "unconfigured" ELSE net

\* a send-email request under a provider configuration
SendVia(leadId, provider, configured, net, smtpNet) ==
  /\ net \in (IF provider = "sendgrid" THEN GridNet ELSE GraphNet)
  /\ SendEmail(leadId, TRUE, routeOutcome(provider, configured, net, smtpNet))

(* ---------------- access token cache (Microsoft Graph) ----------------- *)
\* nothing returned yet
\* let cachedAccessToken: string | null = null
NoTokenId == 0

\* let tokenExpiry: number | null = null
NoExpiry == -1

NoToken == [token |-> NoTokenId, at |-> -1, from |-> "none"]

\* mutant: the expiry is not looked at
cacheValid_noExpiry(now) ==
  cachedAccessToken # NoTokenId /\ tokenExpiry # NoExpiry

\* cachedAccessToken && tokenExpiry && Date.now() < tokenExpiry
cacheValid(now) ==
  cachedAccessToken # NoTokenId /\ tokenExpiry # NoExpiry /\ now < tokenExpiry

\* what acquireTokenByClientCredential does:
\*   "expires"    a token with expiresOn
\*   "noexpiry"   a token without expiresOn
\*   "notoken"    a result without accessToken
\*   "throw"      it rejects
AcquireOutcomes == {"expires", "noexpiry", "notoken", "throw"}

\* getAccessToken up to the await: the cached token, null without
\* credentials, or the request for a new token
GetAccessToken(p, configured) ==
  /\ tokenPc[p] = "idle"
  /\ IF cacheValid(clock)
     THEN /\ handed' = [handed EXCEPT ![p] =
                          [token |-> cachedAccessToken, at |-> clock, from |-> "cache"]]
          /\ UNCHANGED tokenPc
     ELSE IF ~configured
     THEN /\ handed' = [handed EXCEPT ![p] =
                          [token |-> NoTokenId, at |-> clock, from |-> "unconfigured"]]
          /\ UNCHANGED tokenPc
     ELSE /\ tokenPc' = [tokenPc EXCEPT ![p] = "acquiring"]
          /\ UNCHANGED handed
  /\ UNCHANGED <<track, adapterVars, importVars, failVars, bellVars,
                 schedVars, clientVars, clock, mailbox, status, emails,
                 notifications, lastSent, nSent, sendResp, syncVars,
                 prevFetched, cachedAccessToken, tokenExpiry, issued,
                 nTokens>>

\* getAccessToken after the await: store and return the new token, or null
TokenAcquired(p, outcome, life) ==
  /\ tokenPc[p] = "acquiring"
  /\ tokenPc' = [tokenPc EXCEPT ![p] = "idle"]
  /\ IF outcome \in {"expires", "noexpiry"}
     THEN /\ nTokens < MaxTokens
          /\ LET tok == nTokens + 1
                 expiry == IF outcome = "expires" THEN clock + life ELSE clock + Hour
             IN  /\ cachedAccessToken' = tok
                 /\ tokenExpiry' = expiry
                 /\ issued' = [t \in DOMAIN issued \cup {tok} |->
                                 IF t = tok THEN expiry ELSE issued[t]]
                 /\ handed' = [handed EXCEPT ![p] =
                                 [token |-> tok, at |-> clock, from |-> "acquired"]]
          /\ nTokens' = nTokens + 1
     ELSE /\ handed' = [handed EXCEPT ![p] =
                          [token |-> NoTokenId, at |-> clock, from |-> outcome]]
          /\ UNCHANGED <<cachedAccessToken, tokenExpiry, issued, nTokens>>
  /\ UNCHANGED <<track, adapterVars, importVars, failVars, bellVars,
                 schedVars, clientVars, clock, mailbox, status, emails,
                 notifications, lastSent, nSent, sendResp, syncVars,
                 prevFetched>>

(* ------------- sendEmail with inReplyTo (Microsoft Graph) ------------- *)
NoReply == [success |-> FALSE, messageId |-> Null, header |-> <<>>, via |-> "none"]

\* the step of the provider-native reply that fails, if any
ReplySteps == {"get", "createReply", "patch", "send"}
\* what the Sent Items lookup after the send gives
Lookups == {"fresh", "stale", "fail"}

\* value: `<${inReplyTo}>`
inReplyToHeader(inReplyTo) == <<"<", inReplyTo, ">">>

\* sendEmail(to, subject, body, fromEmail, inReplyTo) with a Graph client:
\* the native reply, or on any failure in it a new message with threading
\* headers, then the Sent Items lookup
GraphReply(inReplyTo, failAt, sendOk, lookup) ==
  /\ nSent < MaxSends
  /\ LET thisId == SentIds[nSent + 1]
     IN  IF failAt = "none"
         THEN /\ replyResult' = [success |-> TRUE, messageId |-> thisId,
                                 header |-> <<>>, via |-> "reply"]
              /\ lastSent' = thisId
              /\ nSent' = nSent + 1
         ELSE IF ~sendOk
         THEN \* sendMail rejects: throw new Error("Failed to send email")
              /\ replyResult' = [success |-> FALSE, messageId |-> Null,
                                 header |-> inReplyToHeader(inReplyTo), via |-> "throw"]
              /\ UNCHANGED <<lastSent, nSent>>
         ELSE /\ replyResult' =
                   [success |-> TRUE,
                    messageId |-> CASE lookup = "fresh" -> thisId
                                    [] lookup = "stale" -> lastSent
                                    [] OTHER -> Null,
                    header |-> inReplyToHeader(inReplyTo), via |-> "sendMail"]
              /\ lastSent' = thisId
              /\ nSent' = nSent + 1
  /\ UNCHANGED <<track, importVars, failVars, bellVars, tokenVars, schedVars,
                 clientVars, clock, mailbox, status, emails, notifications,
                 sendResp, syncVars, prevFetched, gridResult>>

(* ---------------------- POST /api/import/file ------------------------- *)
\* a cell of the sheet: absent or empty, only white space, or text
Cells == {"missing", "blank", "text"}

\* a row of the sheet; schemaOk is what insertLeadSchema.parse makes of it
Rows == [clientName : {"missing", "text"}, email : Cells, schemaOk : BOOLEAN]

\* String(cell).trim()
trim(cell) == IF cell = "blank" THEN "" ELSE cell

\* mutant: only the client name is required
rowAccepted_nameOnly(row) == row.clientName # "missing"

\* the negation of: !clientName || !email
rowAccepted(row) == row.clientName # "missing" /\ row.email # "missing"

\* the lead object built from a row
rowToLead(row) ==
  [clientName |-> trim(row.clientName), email |-> trim(row.email), status |-> "New"]

\* storage.createLeads: one insert of all the rows
createLeads(table, leadsList) == table \o leadsList

\* the sheets of up to n rows
RECURSIVE Sheets(_)
Sheets(n) ==
  IF n = 0 THEN {<<>>}
  ELSE LET shorter == Sheets(n - 1)
       IN  shorter \cup {Append(sh, r) : sh \in {x \in shorter : Len(x) = n - 1}, r \in Rows}

NoUpload == [hasFile |-> FALSE, data |-> <<"none">>]

\* a multipart request reaches the route: with a file of some rows, or
\* without a file
Upload(hasFile, data) ==
  /\ upload = NoUpload
  /\ Len(leadRows) < MaxRows
  /\ hasFile \/ data = <<>>
  /\ upload' = [hasFile |-> hasFile, data |-> data]
  /\ UNCHANGED <<track, adapterVars, failVars, bellVars, tokenVars, schedVars,
                 clientVars, clock, mailbox, status, emails, notifications,
                 lastSent, nSent, sendResp, syncVars, prevFetched, leadRows,
                 importResp>>

\* POST /api/import/file: no file, or a sheet that is mapped, validated and
\* inserted; insertOk is whether the insert statement succeeds
ImportFile(insertOk) ==
  /\ upload # NoUpload
  /\ LET data == upload.data
     IN  IF ~upload.hasFile
         THEN importResp' = 400 /\ UNCHANGED leadRows
         ELSE IF \E i \in DOMAIN data : ~rowAccepted(data[i])
         THEN importResp' = 400 /\ UNCHANGED leadRows
         ELSE IF \E i \in DOMAIN data : ~data[i].schemaOk
         THEN importResp' = 400 /\ UNCHANGED leadRows
         ELSE IF data # <<>> /\ ~insertOk
         THEN importResp' = 400 /\ UNCHANGED leadRows
         ELSE /\ leadRows' = createLeads(leadRows,
                                [i \in DOMAIN data |-> rowToLead(data[i])])
              /\ importResp' = 200
  /\ upload' = NoUpload
  /\ UNCHANGED <<track, adapterVars, failVars, bellVars, tokenVars, schedVars,
                 clientVars, clock, mailbox, status, emails, notifications,
                 lastSent, nSent, sendResp, syncVars, prevFetched>>

(* ---------------------- POST /api/emails/sync ------------------------- *)
\* fetchNewEmails: the inbox page, or [] without credentials, or [] from
\* the catch when the request to the provider fails
FetchOutcomes == {"ok", "unconfigured", "error"}

\* fetch, then enter the loop.  History (when recorded) is kept only for a pass
\* that runs alone: one that overlaps another has no predecessor "in sequence".
SyncBegin(p, since, fetch) ==
  /\ pc[p] = "idle"
  /\ LET lastSyncTime == IF since = NoSince THEN clock - Day ELSE since
     IN  newEmails' = [newEmails EXCEPT ![p] =
                         IF fetch = "ok" THEN fetchNewEmails(lastSyncTime) ELSE <<>>]
  /\ pc' = [pc EXCEPT ![p] = "loop"]
  /\ idx' = [idx EXCEPT ![p] = 1]
  /\ matchedCount' = [matchedCount EXCEPT ![p] = 0]
  /\ savedCount' = [savedCount EXCEPT ![p] = 0]
  /\ lead' = [lead EXCEPT ![p] = Null]
  /\ result' = [result EXCEPT ![p] = 0]
  /\ emailsAtStart' = [q \in Procs |-> IF track /\ AllIdle /\ q = p THEN emails ELSE <<>>]
  /\ basis' = [q \in Procs |-> IF track /\ AllIdle /\ q = p THEN prevFetched ELSE NoPrev]
  /\ window' = [q \in Procs |->
                  IF track /\ AllIdle /\ q = p
                  THEN [ok |-> fetch = "ok", fetch |-> fetch,
                        since |-> IF since = NoSince THEN clock - Day ELSE since]
                  ELSE NoWindow]
  /\ prevFetched' = NoPrev

\* the request as the server sees it
SyncStart(p, since, fetch) ==
  /\ SyncBegin(p, since, fetch)
  /\ UNCHANGED <<track, quietVars, schedVars, clientVars, clock, mailbox,
                 status, emails, notifications, lastSent, nSent, sendResp>>

\* loop head: sender check and storage.getLeadByEmail
SyncLookupLead(p) ==
  /\ pc[p] = "loop"
  /\ idx[p] <= Len(newEmails[p])
  /\ LET email == newEmails[p][idx[p]]
         fromAddress == email.from
         found == getLeadByEmail(fromAddress)
     IN  IF fromAddress = Null \/ found = Null
         THEN /\ idx' = [idx EXCEPT ![p] = idx[p] + 1]
              /\ UNCHANGED <<pc, lead, matchedCount>>
         ELSE /\ lead' = [lead EXCEPT ![p] = found]
              /\ matchedCount' = [matchedCount EXCEPT ![p] = matchedCount[p] + 1]
              /\ pc' = [pc EXCEPT ![p] = "check"]
              /\ UNCHANGED idx
  /\ UNCHANGED <<track, quietVars, schedVars, clientVars, clock, mailbox,
                 status, emails, notifications, lastSent, nSent, sendResp,
                 newEmails, savedCount, result, emailsAtStart, basis, window,
                 prevFetched>>

\* storage.getEmailByMessageId
SyncCheckExisting(p) ==
  /\ pc[p] = "check"
  /\ IF getEmailByMessageId(newEmails[p][idx[p]].id)
     THEN /\ pc' = [pc EXCEPT ![p] = "loop"]
          /\ idx' = [idx EXCEPT ![p] = idx[p] + 1]
          /\ lead' = [lead EXCEPT ![p] = Null]
     ELSE /\ pc' = [pc EXCEPT ![p] = "create"]
          /\ UNCHANGED <<idx, lead>>
  /\ UNCHANGED <<track, quietVars, schedVars, clientVars, clock, mailbox,
                 status, emails, notifications, lastSent, nSent, sendResp,
                 newEmails, matchedCount, savedCount, result, emailsAtStart,
                 basis, window, prevFetched>>

\* storage.createEmail; savedCount++
SyncCreateEmail(p) ==
  /\ pc[p] = "create"
  /\ LET email == newEmails[p][idx[p]]
     IN  emails' = createEmail(lead[p], "received", email.id, email.body)
  /\ savedCount' = [savedCount EXCEPT ![p] = savedCount[p] + 1]
  /\ pc' = [pc EXCEPT ![p] = "status"]
  /\ UNCHANGED <<track, quietVars, schedVars, clientVars, clock, mailbox,
                 status, notifications, lastSent, nSent, sendResp, newEmails,
                 idx, matchedCount, lead, result, emailsAtStart, basis,
                 window, prevFetched>>

\* storage.updateLeadStatus(lead.id, "Replied"); next message
SyncUpdateStatus(p) ==
  /\ pc[p] = "status"
  /\ status' = updateLeadStatus(lead[p], "Replied")
  /\ pc' = [pc EXCEPT ![p] = "loop"]
  /\ idx' = [idx EXCEPT ![p] = idx[p] + 1]
  /\ lead' = [lead EXCEPT ![p] = Null]
  /\ UNCHANGED <<track, quietVars, schedVars, clientVars, clock, mailbox,
                 emails, notifications, lastSent, nSent, sendResp, newEmails,
                 matchedCount, savedCount, result, emailsAtStart, basis,
                 window, prevFetched>>

\* res.json({success, checked, matched, saved, lastSync})
SyncRespond(p) ==
  /\ pc[p] = "loop"
  /\ idx[p] > Len(newEmails[p])
  /\ result' = [result EXCEPT ![p] = 200]
  /\ prevFetched' = IF window[p].ok
                     THEN [valid |-> TRUE, since |-> window[p].since]
                     ELSE NoPrev
  /\ pc' = [pc EXCEPT ![p] = "idle"]
  /\ newEmails' = [newEmails EXCEPT ![p] = <<>>]
  /\ idx' = [idx EXCEPT ![p] = 1]
  /\ matchedCount' = [matchedCount EXCEPT ![p] = 0]
  /\ savedCount' = [savedCount EXCEPT ![p] = 0]
  /\ emailsAtStart' = [emailsAtStart EXCEPT ![p] = <<>>]
  /\ basis' = [basis EXCEPT ![p] = NoPrev]
  /\ window' = [window EXCEPT ![p] = NoWindow]
  /\ UNCHANGED <<track, quietVars, schedVars, clientVars, clock, mailbox,
                 status, emails, notifications, lastSent, nSent, sendResp,
                 lead>>

\* a storage call rejects: catch, res.status(500)
SyncThrow(p) ==
  /\ \/ pc[p] \in {"check", "create", "status"}
     \/ pc[p] = "loop" /\ idx[p] <= Len(newEmails[p])
                       /\ newEmails[p][idx[p]].from # Null
  /\ result' = [result EXCEPT ![p] = 500]
  /\ prevFetched' = NoPrev
  /\ lostAt' = IF track
               THEN [saved |-> savedCount[p],
                     id |-> IF idx[p] <= Len(newEmails[p])
                            THEN newEmails[p][idx[p]].id ELSE Null]
               ELSE lostAt
  /\ pc' = [pc EXCEPT ![p] = "idle"]
  /\ newEmails' = [newEmails EXCEPT ![p] = <<>>]
  /\ idx' = [idx EXCEPT ![p] = 1]
  /\ matchedCount' = [matchedCount EXCEPT ![p] = 0]
  /\ savedCount' = [savedCount EXCEPT ![p] = 0]
  /\ lead' = [lead EXCEPT ![p] = Null]
  /\ emailsAtStart' = [emailsAtStart EXCEPT ![p] = <<>>]
  /\ basis' = [basis EXCEPT ![p] = NoPrev]
  /\ window' = [window EXCEPT ![p] = NoWindow]
  /\ UNCHANGED <<track, adapterVars, importVars, bellVars, tokenVars,
                 schedVars, clientVars, clock, mailbox, status, emails,
                 notifications, lastSent, nSent, sendResp>>

(* ------------- notification buffer (server/index.ts) ------------------ *)
\* record(notification): append, keep the BufferCap most recent
record(n) ==
  LET all == Append(notifications, n)
  IN  IF Len(all) <= BufferCap THEN all
      ELSE SubSeq(all, Len(all) - BufferCap + 1, Len(all))

\* query(since?): the notifications with timestamp > since; no since: all
getRecentNotifications(since) ==
  IF since = NoSince THEN notifications
  ELSE SelectSeq(notifications, LAMBDA n : n.timestamp > since)

\* GET /api/notifications/emails: since = req.query.since, may be undefined
notificationsRoute(since) == getRecentNotifications(since)

(* ---------- scheduled reconciliation (section 4.2 algorithm) ---------- *)
\* step 1: fetch the inbound messages since the watermark, oldest first
SchedStart(since) ==
  /\ schedQueue = <<>>
  /\ schedQueue' = SelectSeq(mailbox, LAMBDA m : m.received > since)
  /\ schedQueue' # <<>>
  /\ schedFirst' = 0
  /\ UNCHANGED <<clock, mailbox, status, emails, notifications, lastSent,
                 nSent, sendResp, syncVars, histVars, quietVars, recorded,
                 clientVars>>

\* step 2 for one message: a. sender, b. lead, c. existence check,
\* d. persist, set Replied, record the notification
SchedStep ==
  /\ schedQueue # <<>>
  /\ LET m == Head(schedQueue)
         found == getLeadByEmail(m.from)
         rest == Tail(schedQueue)
     IN  /\ schedQueue' = rest
         /\ IF m.from = Null \/ found = Null \/ getEmailByMessageId(m.id)
            THEN /\ schedFirst' = IF rest = <<>> THEN 0 ELSE schedFirst
                 /\ UNCHANGED <<emails, status, notifications, recorded>>
            ELSE LET newId == Len(emails) + 1
                     first == IF schedFirst = 0 THEN newId ELSE schedFirst
                 IN  /\ emails' = createEmail(found, "received", m.id, m.body)
                     /\ status' = updateLeadStatus(found, "Replied")
                     /\ notifications' = record([id |-> newId, leadId |-> found,
                                                 timestamp |-> clock, pass |-> first])
                     /\ recorded' = recorded \cup {newId}
                     /\ schedFirst' = IF rest = <<>> THEN 0 ELSE first
  /\ UNCHANGED <<clock, mailbox, lastSent, nSent, sendResp, syncVars,
                 histVars, quietVars, clientVars>>

(* ------------------ client store: notificationStore ------------------- *)
unreadOf(l) == IF l \in DOMAIN perLeadUnread THEN perLeadUnread[l] ELSE 0

\* the lead ids the store is called with
StoreLeads == LeadIds \cup {"L9"}

\* mutant: the total is not raised
increment_perLeadOnly(st, leadId) ==
  [unreadTotal |-> st.unreadTotal,
   perLeadUnread |->
     [l \in DOMAIN st.perLeadUnread \cup {leadId} |->
        IF l = leadId
        THEN (IF l \in DOMAIN st.perLeadUnread THEN st.perLeadUnread[l] ELSE 0) + 1
        ELSE st.perLeadUnread[l]]]

\* increment(leadId), applied to a store value
increment(st, leadId) ==
  [unreadTotal |-> st.unreadTotal + 1,
   perLeadUnread |->
     [l \in DOMAIN st.perLeadUnread \cup {leadId} |->
        IF l = leadId
        THEN (IF l \in DOMAIN st.perLeadUnread THEN st.perLeadUnread[l] ELSE 0) + 1
        ELSE st.perLeadUnread[l]]]

\* mutant: clearing one lead resets the whole store
clearLead_reset(st, leadId) ==
  [unreadTotal |-> 0, perLeadUnread |-> [l \in {} |-> 0]]

\* clearLead(leadId), applied to a store value
clearLead(st, leadId) ==
  LET count == IF leadId \in DOMAIN st.perLeadUnread
               THEN st.perLeadUnread[leadId] ELSE 0
      dropped == st.unreadTotal - count
  IN  [unreadTotal |-> IF count > 0
                       THEN (IF dropped > 0 THEN dropped ELSE 0)
                       ELSE st.unreadTotal,
       perLeadUnread |-> [l \in DOMAIN st.perLeadUnread \ {leadId} |->
                            st.perLeadUnread[l]]]

\* reset(), applied to a store value
reset(st) == [unreadTotal |-> 0, perLeadUnread |-> [l \in {} |-> 0]]

\* getState()
getState == [unreadTotal |-> unreadTotal, perLeadUnread |-> perLeadUnread]

\* a call of a store method
StoreCall(st) ==
  /\ unreadTotal' = st.unreadTotal
  /\ perLeadUnread' = st.perLeadUnread
  /\ UNCHANGED <<clock, mailbox, status, emails, notifications, lastSent,
                 nSent, sendResp, syncVars, histVars, adapterVars, importVars,
                 failVars, tokenVars, schedVars, loaded, lastCheck, shown,
                 inflight, toasts, alerted>>

\* notificationStore.increment(leadId)
Increment(leadId) ==
  /\ unreadTotal < MaxUnread
  /\ StoreCall(increment(getState, leadId))
  /\ UNCHANGED clicked

\* NotificationBell.handleLeadClick: notificationStore.clearLead(leadId)
HandleLeadClick(leadId) ==
  /\ StoreCall(clearLead(getState, leadId))
  /\ clicked' = [leadId |-> leadId, count |-> unreadOf(leadId)]

\* the bell's button: notificationStore.reset()
Reset == StoreCall(reset(getState)) /\ UNCHANGED clicked

(* --------------- client poller: useEmailNotifications ----------------- *)
\* the page is (re)loaded: refs and store start from their initial values
PageLoad ==
  /\ loaded' = TRUE
  /\ lastCheck' = clock
  /\ shown' = {}
  /\ perLeadUnread' = [l \in {} |-> 0]
  /\ unreadTotal' = 0
  /\ inflight' = EmptyBag
  /\ toasts' = <<>>
  /\ <<loaded, lastCheck, shown, unreadTotal, inflight, toasts>> #
       <<TRUE, clock, {}, 0, EmptyBag, <<>> >>
  /\ UNCHANGED <<clock, mailbox, status, emails, notifications, lastSent,
                 nSent, sendResp, syncVars, histVars, quietVars, schedVars,
                 alerted>>

\* fetch(`/api/notifications/emails?since=${lastCheckRef.current}`)
PollSend ==
  /\ loaded
  /\ BagCardinality(inflight) < MaxInflight
  /\ inflight' = inflight (+) SetToBag({notificationsRoute(lastCheck)})
  /\ UNCHANGED <<clock, mailbox, status, emails, notifications, lastSent,
                 nSent, sendResp, syncVars, histVars, quietVars, schedVars,
                 loaded, lastCheck, shown, perLeadUnread, unreadTotal, toasts,
                 alerted>>

\* mutant: nothing counts as shown already
alreadyShown_never(seen, id) == FALSE

\* has this notification id been shown already
alreadyShown(seen, id) == id \in seen

\* the forEach over the batch, as a fold from the left
RECURSIVE handleBatch(_, _)
handleBatch(batch, acc) ==
  IF batch = <<>> THEN acc
  ELSE LET n == Head(batch)
       IN  IF alreadyShown(acc.shown, n.id)
           THEN handleBatch(Tail(batch), acc)
           ELSE handleBatch(Tail(batch),
                  [shown |-> acc.shown \cup {n.id},
                   store |-> increment(acc.store, n.leadId),
                   toasts |-> Append(acc.toasts, [id |-> n.id, leadId |-> n.leadId])])

\* mutant: the first notification of the batch is taken as the newest
newest_first(batch) == batch[1]

\* data.notifications[data.notifications.length - 1]
newest(batch) == batch[Len(batch)]

\* the response of a poll arrives and is handled
PollRecv(batch) ==
  /\ BagIn(batch, inflight)
  /\ LET out == handleBatch(batch,
                  [shown |-> shown,
                   store |-> [unreadTotal |-> unreadTotal,
                              perLeadUnread |-> perLeadUnread],
                   toasts |-> toasts])
     IN  /\ shown' = out.shown
         /\ unreadTotal' = out.store.unreadTotal
         /\ perLeadUnread' = out.store.perLeadUnread
         /\ toasts' = out.toasts
         /\ alerted' = alerted \cup out.shown
         /\ lastCheck' = IF Len(batch) > 0 THEN newest(batch).timestamp
                         ELSE lastCheck
  /\ inflight' = inflight (-) SetToBag({batch})
  /\ UNCHANGED <<clock, mailbox, status, emails, notifications, lastSent,
                 nSent, sendResp, syncVars, histVars, quietVars, schedVars,
                 loaded>>

\* the request fails: catch, console.error
PollFail(batch) ==
  /\ BagIn(batch, inflight)
  /\ inflight' = inflight (-) SetToBag({batch})
  /\ UNCHANGED <<clock, mailbox, status, emails, notifications, lastSent,
                 nSent, sendResp, syncVars, histVars, quietVars, schedVars,
                 loaded, lastCheck, shown, perLeadUnread, unreadTotal, toasts,
                 alerted>>

(* --------------------------- specifications --------------------------- *)
InitState ==
  /\ clock = 0
  /\ mailbox = <<>>
  /\ status = [l \in LeadIds |-> "New"]
  /\ emails = <<>>
  /\ notifications = <<>>
  /\ lastSent = Null
  /\ nSent = 0
  /\ sendResp = 0
  /\ pc = [p \in Procs |-> "idle"]
  /\ newEmails = [p \in Procs |-> <<>>]
  /\ idx = [p \in Procs |-> 1]
  /\ matchedCount = [p \in Procs |-> 0]
  /\ savedCount = [p \in Procs |-> 0]
  /\ lead = [p \in Procs |-> Null]
  /\ result = [p \in Procs |-> 0]
  /\ emailsAtStart = [p \in Procs |-> <<>>]
  /\ basis = [p \in Procs |-> NoPrev]
  /\ window = [p \in Procs |-> NoWindow]
  /\ prevFetched = NoPrev
  /\ schedQueue = <<>>
  /\ schedFirst = 0
  /\ recorded = {}
  /\ loaded = FALSE
  /\ lastCheck = 0
  /\ shown = {}
  /\ perLeadUnread = [l \in {} |-> 0]
  /\ unreadTotal = 0
  /\ inflight = EmptyBag
  /\ toasts = <<>>
  /\ alerted = {}
  /\ replyResult = NoReply
  /\ leadRows = <<>>
  /\ importResp = 0
  /\ upload = NoUpload
  /\ lostAt = NoLoss
  /\ clicked = NoClick
  /\ gridResult = NoGrid
  /\ cachedAccessToken = NoTokenId
  /\ tokenExpiry = NoExpiry
  /\ tokenPc = [p \in Procs |-> "idle"]
  /\ handed = [p \in Procs |-> NoToken]
  /\ issued = [t \in {} |-> 0]
  /\ nTokens = 0

Init == InitState /\ track = FALSE

\* the same initial state, with pass history recorded
TrackInit == InitState /\ track = TRUE

SyncStep(p) ==
  \/ SyncLookupLead(p)
  \/ SyncCheckExisting(p)
  \/ SyncCreateEmail(p)
  \/ SyncUpdateStatus(p)
  \/ SyncRespond(p)
  \/ SyncThrow(p)

Sync(p) ==
  \/ \E since \in {NoSince} \cup (0..(MaxClock - 1)), f \in FetchOutcomes : SyncStart(p, since, f)
  \/ SyncStep(p)

Arrive == \E m \in Messages : Deliver(m)

\* the arrivals of one correspondent, and messages without a sender
ThreadMessages == {m \in Messages : m.from \in {"a@b.com", Null}}

ThreadArrive == \E m \in ThreadMessages : Deliver(m)

\* the arrivals that can lead to a notification
ReplyMessages ==
  {m \in Messages : /\ m.from # Null /\ getLeadByEmail(m.from) # Null
                    /\ m.body = "b1" /\ m.id \in {"m1", "m5"}}

ReplyArrive == \E m \in ReplyMessages : Deliver(m)

UserStatus == \E l \in LeadIds, s \in UserStatuses : SetStatus(l, s)

Send == \E l \in LeadIds \cup {"L9"}, ok \in BOOLEAN, o \in SendOutcomes : SendEmail(l, ok, o)

\* sync requests overlap and interleave at storage-call granularity
Next ==
  \/ Tick
  \/ Arrive
  \/ \E p \in Procs : Sync(p)

Spec == Init /\ [][Next]_vars

\* one request at a time
SeqNext ==
  \/ Tick
  \/ AllIdle /\ ThreadArrive
  \/ AllIdle /\ UserStatus
  \/ Sync(1)

SeqSpec == Init /\ [][SeqNext]_vars

\* two sync passes run one after the other over the inbox
TwiceNext ==
  \/ Tick
  \/ AllIdle /\ ThreadArrive
  \/ Sync(1)

TwiceSpec == TrackInit /\ [][TwiceNext]_vars

\* one request at a time: route syncs and the scheduled reconciliation
MixNext ==
  \/ AllIdle /\ schedQueue = <<>> /\ Arrive
  \/ schedQueue = <<>> /\ Sync(1)
  \/ AllIdle /\ (\E since \in {NoSince} \cup (0..(MaxClock - 1)) : SchedStart(since))
  \/ SchedStep

MixSpec == Init /\ [][MixNext]_vars

\* send-email requests under every provider configuration, status edits by
\* the user and one reply picked up by sync, one request at a time
OutboxNext ==
  \/ AllIdle /\ (\E l \in LeadIds, c \in BOOLEAN, n \in GraphNet :
                   SendVia(l, "microsoft", c, n, "ok"))
  \/ AllIdle /\ (\E l \in LeadIds, c \in BOOLEAN, n \in GridNet, sn \in GridNet :
                   SendVia(l, "sendgrid", c, n, sn))
  \/ AllIdle /\ (\E l \in LeadIds \cup {"L9"}, ok \in BOOLEAN :
                   SendEmail(l, ok, "nostatus"))
  \/ AllIdle /\ UserStatus
  \/ AllIdle /\ mailbox = <<>> /\ ReplyArrive
  \/ SyncStart(1, NoSince, "ok") \/ SyncStep(1)

OutboxSpec == Init /\ [][OutboxNext]_vars

\* every kind of inbound message, synced one request at a time, with the
\* default window or since = 0
MatchNext ==
  \/ AllIdle /\ Arrive
  \/ \E since \in {NoSince, 0}, f \in FetchOutcomes : SyncStart(1, since, f)
  \/ SyncStep(1)

MatchSpec == Init /\ [][MatchNext]_vars

\* replies through the Graph adapter, between send-email requests
ReplyNext ==
  \/ \E orig \in {m.id : m \in Messages}, failAt \in ReplySteps \cup {"none"},
        sendOk \in BOOLEAN, lookup \in Lookups :
          GraphReply(orig, failAt, sendOk, lookup)
  \/ \E l \in LeadIds, n \in GraphNet : SendVia(l, "microsoft", TRUE, n, "ok")

ReplySpec == Init /\ [][ReplyNext]_vars

\* one request at a time, sends and syncs
SendNext ==
  \/ AllIdle /\ Arrive
  \/ AllIdle /\ Send
  \/ Sync(1)

SendSpec == Init /\ [][SendNext]_vars

\* scheduled reconciliation, notification feed and one client page
PollNext ==
  \/ Tick
  \/ ReplyArrive
  \/ SchedStart(NoSince)
  \/ SchedStep
  \/ ~loaded /\ PageLoad
  \/ PollSend
  \/ \E batch \in BagToSet(inflight) : PollRecv(batch)
  \/ \E batch \in BagToSet(inflight) : PollFail(batch)

PollSpec == Init /\ [][PollNext]_vars

\* one client session under the poller's scheduling: setInterval keeps
\* ticking, and every request gets its response
FairPollNext ==
  \/ Tick
  \/ ReplyArrive
  \/ SchedStart(NoSince)
  \/ SchedStep
  \/ ~loaded /\ PageLoad
  \/ PollSend
  \/ \E batch \in BagToSet(inflight) : PollRecv(batch)

FairPollSpec ==
  /\ Init
  /\ [][FairPollNext]_vars
  /\ WF_vars(Tick)
  /\ WF_vars(PollSend)
  /\ WF_vars(\E batch \in BagToSet(inflight) : PollRecv(batch))

(* ------------------- lead detail view: Leads page --------------------- *)
\* the effect on [selectedLead]: clear the lead's badge, then POST
\* /api/emails/sync with an empty body
OpenLead(leadId, p, fetch) ==
  /\ loaded
  /\ LET st == clearLead([unreadTotal |-> unreadTotal,
                          perLeadUnread |-> perLeadUnread], leadId)
     IN  /\ unreadTotal' = st.unreadTotal
         /\ perLeadUnread' = st.perLeadUnread
  /\ SyncBegin(p, NoSince, fetch)
  /\ UNCHANGED <<track, quietVars, schedVars, clock, mailbox, status, emails,
                 notifications, lastSent, nSent, sendResp, loaded, lastCheck,
                 shown, inflight, toasts, alerted>>

\* nothing is under way: no pass, no scheduled queue, no poll in flight
Quiet == AllIdle /\ schedQueue = <<>> /\ inflight = EmptyBag

\* one client page with the poller and the lead detail view, one event at a
\* time: a scheduled pass, a poll and the pass a lead view starts each run
\* to their end before the next event
LeadViewNext ==
  \/ Quiet /\ Tick
  \/ Quiet /\ ReplyArrive
  \/ Quiet /\ SchedStart(NoSince)
  \/ SchedStep
  \/ ~loaded /\ PageLoad
  \/ Quiet /\ PollSend
  \/ \E batch \in BagToSet(inflight) : PollRecv(batch)
  \/ \E l \in LeadIds, f \in FetchOutcomes : Quiet /\ OpenLead(l, 1, f)
  \/ SyncStep(1)

LeadViewSpec == Init /\ [][LeadViewNext]_vars

\* a client page that can be reloaded at any time, one event at a time
ReloadNext ==
  \/ Quiet /\ Tick
  \/ Quiet /\ ReplyArrive
  \/ Quiet /\ SchedStart(NoSince)
  \/ SchedStep
  \/ PageLoad
  \/ Quiet /\ PollSend
  \/ \E batch \in BagToSet(inflight) : PollRecv(batch)

ReloadSpec == Init /\ [][ReloadNext]_vars

\* file imports
ImportNext ==
  \/ \E hasFile \in BOOLEAN, data \in Sheets(MaxRows) : Upload(hasFile, data)
  \/ \E insertOk \in BOOLEAN : ImportFile(insertOk)

ImportSpec == Init /\ [][ImportNext]_vars

\* passes one after the other over an inbox of replies, some ending in the
\* catch
RetryNext ==
  \/ Tick
  \/ AllIdle /\ ReplyArrive
  \/ Sync(1)

RetrySpec == TrackInit /\ [][RetryNext]_vars

\* the client store under any sequence of its three methods
StoreNext ==
  \/ \E l \in StoreLeads : Increment(l)
  \/ \E l \in StoreLeads : HandleLeadClick(l)
  \/ Reset

StoreSpec == Init /\ [][StoreNext]_vars

\* calls of the SendGrid adapter under every transport setting
GridNext ==
  \E t \in Transports, c \in BOOLEAN, n \in GridNet, sn \in GridNet :
    GridSend(t, c, n, sn)

GridSpec == Init /\ [][GridNext]_vars

\* callers of getAccessToken as time passes
TokenNext ==
  \/ Tick
  \/ \E p \in Procs, c \in BOOLEAN : GetAccessToken(p, c)
  \/ \E p \in Procs, o \in AcquireOutcomes, life \in 1..MaxLife :
       TokenAcquired(p, o, life)

TokenSpec == Init /\ [][TokenNext]_vars

(* =============================== claims ================================ *)
ReceivedRows == {i \in DOMAIN emails : emails[i].direction = "received"}

\* a pass about to answer 200: the loop has run through every fetched message
AtRespond(p) == pc[p] = "loop" /\ idx[p] > Len(newEmails[p])

\* the previous pass ended with 200 after a successful fetch, nothing happened
\* between its end and the start of this one, and this pass ran alone
InSequence(p) == basis[p].valid

\* this pass looks at no message older than the previous pass looked at
WindowContained(p) == ~window[p].ok \/ window[p].since >= basis[p].since

\* C1 (as stated): a sync pass that follows another one in sequence, on an
\* unchanged mailbox and store, with any overlapping window, answers saved = 0
\* and leaves the emails table as it found it.
C1_SecondPassSavesNothing ==
  \A p \in Procs :
    (AtRespond(p) /\ InSequence(p)) =>
      (savedCount[p] = 0 /\ emails = emailsAtStart[p])

\* C1 (amended): the same, when the second pass's window is contained in the
\* first's (its since is not earlier than the first's).
C1_SecondPassContainedWindow ==
  \A p \in Procs :
    (AtRespond(p) /\ InSequence(p) /\ WindowContained(p)) =>
      (savedCount[p] = 0 /\ emails = emailsAtStart[p])

\* C1 witness: a second pass over a contained window has matched a message
\* again and is about to answer
C1_Witness ==
  \E p \in Procs :
    /\ AtRespond(p) /\ InSequence(p) /\ WindowContained(p)
    /\ window[p].ok
    /\ matchedCount[p] > 0
    /\ ReceivedRows # {}

\* C2: no two stored Emails share the same non-null provider message id.
C2_UniqueMessageIds ==
  \A i, j \in DOMAIN emails :
    (i # j /\ emails[i].messageId # Null) =>
      emails[i].messageId # emails[j].messageId

\* C3: when sync passes overlap and see the same inbound message, at most one
\* Email with that provider message id is persisted.
C3_OverlapStoresOnce ==
  \A id \in {m.id : m \in Messages} :
    Cardinality({i \in ReceivedRows : emails[i].messageId = id}) <= 1

\* C4: once a pass has stored a received Email for lead L, the pass does not
\* move on or end without having set L.status to Replied.
C4_StoredImpliesReplied ==
  [][\A p \in Procs :
       (pc[p] = "status" /\ pc'[p] # "status") =>
         status'[lead[p]] = "Replied"]_vars

\* C5: the number of notifications ever recorded equals the number of
\* received Emails ever stored.
C5_OneNotificationPerReceived ==
  (AllIdle /\ schedQueue = <<>>) =>
    Cardinality(recorded) = Cardinality(ReceivedRows)

\* C10: for an inbound message id at most one Email is stored, an Email is
\* inserted for an id only when none is stored yet (so the stored body is
\* that of the message handled first), and a stored row never changes.
C10_FirstBodyKept ==
  /\ [](\A id \in {m.id : m \in Messages} :
          Cardinality({i \in ReceivedRows : emails[i].messageId = id}) <= 1)
  /\ [][/\ \A i \in DOMAIN emails :
             i \in DOMAIN emails' /\ emails'[i] = emails[i]
        /\ \A p \in Procs :
             (pc[p] = "create" /\ pc'[p] = "status") =>
               ~ \E i \in DOMAIN emails :
                   emails[i].messageId = newEmails[p][idx[p]].id]_vars

\* C10 witness: two messages with one id and different bodies have both been
\* handled by a pass, and one Email with that id is stored
C10_Witness ==
  \E p \in Procs :
    /\ AtRespond(p)
    /\ \E a, b \in DOMAIN newEmails[p] :
         /\ a < b
         /\ newEmails[p][a].id = newEmails[p][b].id
         /\ newEmails[p][a].body # newEmails[p][b].body
         /\ \E i \in ReceivedRows :
              /\ emails[i].messageId = newEmails[p][a].id
              /\ emails[i].body = newEmails[p][a].body

\* C6: every notification the server has recorded
\* is eventually alerted by a loaded client whose poller keeps ticking, also
\* when it was recorded before the client polled or carries a timestamp that
\* equals or precedes the client's last-seen timestamp.
C6_NoLostAlerts ==
  \A id \in 1..(MaxMailbox + 1) :
    (loaded /\ id \in recorded) ~> (id \in alerted)

ToastsFor(l) == {k \in DOMAIN toasts : toasts[k].leadId = l}

\* C7: within one client session no notification id raises two toasts, and
\* the global and per-lead unread counters have grown by exactly one per
\* toasted id.
C7_OneAlertPerId ==
  /\ \A j, k \in DOMAIN toasts : j # k => toasts[j].id # toasts[k].id
  /\ unreadTotal = Len(toasts)
  /\ \A l \in LeadIds : unreadOf(l) = Cardinality(ToastsFor(l))
  /\ {toasts[k].id : k \in DOMAIN toasts} = shown

\* C7 witness: an id that has been toasted and counted once comes back in the
\* response of a poll whose window overlaps
C7_Witness ==
  \E batch \in BagToSet(inflight) : \E k \in DOMAIN batch :
    /\ batch[k].id \in shown
    /\ \E j \in DOMAIN toasts : toasts[j].id = batch[k].id
    /\ unreadOf(batch[k].leadId) > 0

Watermarks == {NoSince} \cup (0..MaxClock)

\* C8: the feed queried with since returns exactly the retained
\* notifications with timestamp > since, in ascending timestamp order, and
\* the whole retained window when queried without since; for the
\* notifications N1..Nk of one pass, since = N_i.timestamp returns every one
\* of N_{i+1}..N_k.
C8_FeedAfterEachOfPass ==
  /\ notificationsRoute(NoSince) = notifications
  /\ \A since \in Watermarks \ {NoSince} :
       LET r == notificationsRoute(since)
       IN  /\ \A k \in DOMAIN r : r[k].timestamp > since
           /\ \A k \in DOMAIN notifications :
                notifications[k].timestamp > since =>
                  \E j \in DOMAIN r : r[j] = notifications[k]
           /\ \A j, k \in DOMAIN r :
                j < k => r[j].timestamp <= r[k].timestamp
  /\ \A i \in DOMAIN notifications :
       LET r == notificationsRoute(notifications[i].timestamp)
       IN  \A k \in DOMAIN notifications :
             (k > i /\ notifications[k].pass = notifications[i].pass) =>
               \E j \in DOMAIN r : r[j] = notifications[k]

MaxTimestamp(batch) ==
  CHOOSE t \in {batch[k].timestamp : k \in DOMAIN batch} :
    \A k \in DOMAIN batch : batch[k].timestamp <= t

\* C9: handling a non-empty batch leaves the last-seen timestamp at the
\* greatest timestamp of that batch; an empty batch or a failed request leaves
\* it unchanged.
C9_LastCheckIsNewest ==
  [][inflight' # inflight =>
       \A batch \in BagToSet(inflight) :
         /\ PollRecv(batch) =>
              lastCheck' = IF batch = <<>> THEN lastCheck
                           ELSE MaxTimestamp(batch)
         /\ PollFail(batch) => lastCheck' = lastCheck]_vars

\* C9 witness: a batch of two notifications with different timestamps has
\* been handled, and the last-seen timestamp is the later of the two
C9_Witness ==
  \E j, k \in DOMAIN toasts :
    \E a, b \in DOMAIN notifications :
      /\ notifications[a].id = toasts[j].id
      /\ notifications[b].id = toasts[k].id
      /\ notifications[a].timestamp < notifications[b].timestamp
      /\ lastCheck = notifications[b].timestamp
      /\ inflight = EmptyBag

SentRows(l) ==
  {i \in DOMAIN emails : emails[i].direction = "sent" /\ emails[i].leadId = l}

\* one more row, the rows before it untouched
OneRowAdded ==
  /\ Len(emails') = Len(emails) + 1
  /\ \A i \in DOMAIN emails : emails'[i] = emails[i]

\* C11: a send-email request for an existing lead with subject and body that
\* is answered 200 has added exactly one Email, direction sent, owned by that
\* lead, and leaves the lead's status Contacted whatever it was.
C11_SendSetsContacted ==
  [][\A l \in LeadIds, o \in SendOutcomes :
       (sendResp' = 200 /\ nSent' # nSent /\ SendEmail(l, TRUE, o)) =>
         /\ OneRowAdded
         /\ emails'[Len(emails')].direction = "sent"
         /\ emails'[Len(emails')].leadId = l
         /\ status'[l] = "Contacted"
         /\ \A k \in LeadIds \ {l} : status'[k] = status[k]]_vars

\* C11 witness: a lead that had replied has been sent an email and is
\* Contacted again
C11_Witness ==
  \E l \in LeadIds :
    /\ sendResp = 200
    /\ status[l] = "Contacted"
    /\ emails # <<>>
    /\ emails[Len(emails)].direction = "sent"
    /\ emails[Len(emails)].leadId = l
    /\ \E i \in ReceivedRows : emails[i].leadId = l

\* C12: with no credentials configured, a send through either provider is
\* answered 200, stores the sent Email without a provider message id and
\* sets the lead to Contacted.
C12_DisabledModeUniform ==
  [][\A l \in LeadIds, p \in Providers, n \in GraphNet \cup GridNet, sn \in GridNet :
       SendVia(l, p, FALSE, n, sn) =>
         /\ sendResp' = 200
         /\ OneRowAdded
         /\ emails'[Len(emails')].direction = "sent"
         /\ emails'[Len(emails')].messageId = Null
         /\ status'[l] = "Contacted"]_vars

LeadAddresses == {leadEmail[l] : l \in LeadIds}

\* the message has no sender, or a sender that is no lead's address
Unmatched(m) == m.from = Null \/ m.from \notin LeadAddresses

NoMatchFetched(p) == \A k \in DOMAIN newEmails[p] : Unmatched(newEmails[p][k])

\* C13: a pass that fetched nothing (no credentials, or nothing in the
\* window) cannot end in the catch; a pass none of whose fetched messages
\* matches a lead changes no Lead and no Email, and when it has gone through
\* its messages it answers 200 with matched = 0 and saved = 0.
C13_QuietPassSucceeds ==
  /\ [](\A p \in Procs :
          (pc[p] = "loop" /\ newEmails[p] = <<>>) =>
            (~ENABLED SyncThrow(p) /\ ENABLED SyncRespond(p)))
  /\ [][\A p \in Procs :
          (pc[p] # "idle" /\ NoMatchFetched(p)) =>
            /\ emails' = emails
            /\ status' = status
            /\ (AtRespond(p) /\ pc'[p] = "idle") =>
                 /\ result'[p] = 200
                 /\ matchedCount[p] = 0
                 /\ savedCount[p] = 0]_vars

\* C13 witness: a pass has gone through fetched messages, one of them from an
\* address that is no lead's, and matched none
C13_Witness ==
  \E p \in Procs :
    /\ AtRespond(p)
    /\ NoMatchFetched(p)
    /\ \E k \in DOMAIN newEmails[p] : newEmails[p][k].from # Null
    /\ matchedCount[p] = 0

\* the messages among the first n fetched by p that come from a lead's address
MatchedAmong(p, n) ==
  {k \in DOMAIN newEmails[p] : k <= n /\ ~Unmatched(newEmails[p][k])}

\* C17: handling a message whose sender is no lead's address moves the pass
\* on to the next message without an error and changes no count, no Lead and
\* no Email; matched counts exactly the messages from lead addresses.
C17_UnmatchedSenderSkipped ==
  /\ [](\A p \in Procs :
          pc[p] = "loop" =>
            matchedCount[p] = Cardinality(MatchedAmong(p, idx[p] - 1)))
  /\ [][\A p \in Procs :
          (/\ pc[p] = "loop" /\ idx[p] \in DOMAIN newEmails[p]
           /\ Unmatched(newEmails[p][idx[p]])
           /\ SyncLookupLead(p)) =>
            /\ pc'[p] = "loop" /\ idx'[p] = idx[p] + 1
            /\ matchedCount'[p] = matchedCount[p]
            /\ savedCount'[p] = savedCount[p]
            /\ emails' = emails
            /\ status' = status]_vars

\* C17 witness: a pass has gone through a message from an unknown address and
\* a message from a lead, and counted only the second
C17_Witness ==
  \E p \in Procs :
    /\ AtRespond(p)
    /\ \E k \in DOMAIN newEmails[p] :
         newEmails[p][k].from # Null /\ Unmatched(newEmails[p][k])
    /\ matchedCount[p] = 1
    /\ Len(newEmails[p]) = 2

\* C18: a message is matched to a lead only when its sender address equals
\* the lead's email character for character, so every stored received Email
\* belongs to a lead whose address is exactly the sender's.
C18_ExactSenderMatch ==
  /\ \A p \in Procs :
       pc[p] \in {"check", "create", "status"} =>
         newEmails[p][idx[p]].from = leadEmail[lead[p]]
  /\ \A i \in ReceivedRows :
       \E k \in DOMAIN mailbox :
         /\ mailbox[k].id = emails[i].messageId
         /\ mailbox[k].from = leadEmail[emails[i].leadId]

\* C18 witness: a pass has gone through a message from x@y.com while a lead
\* has the address X@Y.com, and no Email was stored for that lead
C18_Witness ==
  \E p \in Procs : \E l \in LeadIds :
    /\ AtRespond(p)
    /\ \E k \in DOMAIN newEmails[p] :
         /\ newEmails[p][k].from # Null
         /\ newEmails[p][k].from # leadEmail[l]
         /\ lower(newEmails[p][k].from) = lower(leadEmail[l])
    /\ ~ \E i \in ReceivedRows : emails[i].leadId = l
    /\ status[l] = "New"

\* inbox messages in the window of p's pass that come from a lead and have no
\* Email yet
Unprocessed(p) ==
  {k \in DOMAIN mailbox :
     /\ mailbox[k].received > window[p].since
     /\ ~Unmatched(mailbox[k])
     /\ ~ \E i \in DOMAIN emails : emails[i].messageId = mailbox[k].id}

\* C14: a pass whose provider fetch failed is reported as a failure and makes
\* no progress, and a lastSync handed back (the time of the response) is not
\* later than the timestamp of any message left unprocessed.
C14_FetchFailureReported ==
  [][\A p \in Procs :
       (pc[p] # "idle" /\ pc'[p] = "idle" /\ window[p].fetch = "error") =>
         /\ result'[p] # 200
         /\ emails' = emails
         /\ result'[p] = 200 =>
              \A k \in Unprocessed(p) : clock <= mailbox[k].received]_vars

\* C15: within a pass the fetched messages are handled in increasing
\* received-timestamp order: no message handled before the current one was
\* received later than it.
C15_OldestFirst ==
  \A p \in Procs :
    (pc[p] # "idle" /\ idx[p] \in DOMAIN newEmails[p]) =>
      \A k \in 1..(idx[p] - 1) :
        newEmails[p][k].received <= newEmails[p][idx[p]].received

\* the provider ids of the messages sent so far
IdsSentBefore == {SentIds[k] : k \in 1..nSent}

\* the message id inside the angle brackets of a header value
headerId(h) == IF Len(h) = 3 /\ h[1] = "<" /\ h[3] = ">" THEN h[2] ELSE Null

\* C16: a Graph send with inReplyTo whose native reply fails at any step,
\* the fallback send being accepted, returns success with a new provider
\* message id, and the message carries In-Reply-To with the original id.
C16_ReplyFallback ==
  [][\A orig \in {m.id : m \in Messages}, failAt \in ReplySteps, lookup \in Lookups :
       GraphReply(orig, failAt, TRUE, lookup) =>
         /\ replyResult'.success
         /\ replyResult'.messageId # Null
         /\ replyResult'.messageId \notin IdsSentBefore
         /\ headerId(replyResult'.header) = orig]_vars

\* C19: opening a lead's detail view sets that lead's unread counter to zero
\* and starts one on-demand sync pass at once, and leaves the notification
\* history and the other leads' unread counters as they were.
C19_OpenLeadClearsOnlyThatLead ==
  [][\A l \in LeadIds, f \in FetchOutcomes :
       (pc' # pc /\ OpenLead(l, 1, f)) =>
         /\ l \notin DOMAIN perLeadUnread'
         /\ \A o \in LeadIds \ {l} :
              /\ (o \in DOMAIN perLeadUnread') = (o \in DOMAIN perLeadUnread)
              /\ o \in DOMAIN perLeadUnread => perLeadUnread'[o] = perLeadUnread[o]
         /\ unreadTotal' = unreadTotal - unreadOf(l)
         /\ notifications' = notifications
         /\ pc[1] = "idle" /\ pc'[1] = "loop"]_vars

\* a lead view was opened (a pass is running, one lead has no counter) while
\* another lead still has unread replies
C19_Witness ==
  /\ pc[1] = "loop"
  /\ \E l \in LeadIds, o \in LeadIds :
       /\ l # o
       /\ l \notin DOMAIN perLeadUnread
       /\ l \in {t.leadId : t \in {toasts[i] : i \in DOMAIN toasts}}
       /\ unreadOf(o) > 0
       /\ unreadTotal = unreadOf(o)

\* C20: unread counts persist across a page refresh: after the page is
\* reloaded every lead's unread count and the unread total are what they
\* were before the reload.
C20_CountsSurviveReload ==
  [][PageLoad => /\ unreadTotal' = unreadTotal
                 /\ \A l \in LeadIds :
                      IF l \in DOMAIN perLeadUnread'
                      THEN perLeadUnread'[l] = unreadOf(l)
                      ELSE unreadOf(l) = 0]_vars

\* a row with no client name or no email, or one the schema rejects
BadRow(row) == row.clientName = "missing" \/ row.email = "missing" \/ ~row.schemaOk

\* C21: an import batch with any row lacking a client name or an email, or
\* failing schema validation, is rejected with a 4xx and creates no lead;
\* leads are created only when every row of the batch is valid.
C21_ImportAtomic ==
  [][\A insertOk \in BOOLEAN :
       (upload.hasFile /\ ImportFile(insertOk)) =>
         /\ (\E i \in DOMAIN upload.data : BadRow(upload.data[i])) =>
              (importResp' \in 400..499 /\ leadRows' = leadRows)
         /\ leadRows' # leadRows =>
              /\ \A i \in DOMAIN upload.data : ~BadRow(upload.data[i])
              /\ Len(leadRows') = Len(leadRows) + Len(upload.data)
              /\ importResp' = 200
         /\ leadRows' = leadRows \/ importResp' = 200]_vars

\* a batch of two valid rows was imported whole
C21_Witness ==
  /\ importResp = 200
  /\ Len(leadRows) = 2
  /\ \A i \in DOMAIN leadRows : leadRows[i].email = "text"

\* the received Emails stored for a provider message id
StoredFor(id) == {i \in ReceivedRows : emails[i].messageId = id}

\* C22: a pass that fails while handling a message leaves the Emails it had
\* saved stored, and a later pass over the same window ends with every matched
\* message of the window stored once.
C22_PartialProgressKept ==
  /\ [][\A p \in Procs : SyncThrow(p) => emails' = emails]_vars
  /\ [][\A i \in DOMAIN emails :
          i \in DOMAIN emails' /\ emails'[i] = emails[i]]_vars
  /\ [](\A p \in Procs :
          (AtRespond(p) /\ window[p].ok) =>
            \A k \in DOMAIN mailbox :
              (mailbox[k].received > window[p].since /\ ~Unmatched(mailbox[k])) =>
                Cardinality(StoredFor(mailbox[k].id)) = 1)

\* an earlier pass ended in the catch after saving an Email, and this pass has
\* saved the message that one failed on
C22_Witness ==
  /\ AtRespond(1)
  /\ window[1].ok
  /\ lostAt.saved > 0
  /\ savedCount[1] > 0
  /\ \E k \in DOMAIN newEmails[1] : newEmails[1][k].id = lostAt.id
  /\ \E i \in ReceivedRows :
       /\ emails[i].messageId = lostAt.id
       /\ i > Len(emailsAtStart[1])

\* in this step a sent Email was stored for lead l
SentStoredFor(l) ==
  /\ Len(emails') = Len(emails) + 1
  /\ emails'[Len(emails')].direction = "sent"
  /\ emails'[Len(emails')].leadId = l

\* C23: a Lead's status changes only by an explicit user update, by send-email
\* setting that lead to Contacted, or by sync setting the matched lead to
\* Replied; send-email and sync write no other value and touch no other lead.
C23_OnlyTwoAutomaticTransitions ==
  [][status' # status =>
       \/ \E l \in LeadIds, s \in UserStatuses : SetStatus(l, s)
       \/ \E l \in LeadIds :
            /\ AllIdle /\ SentStoredFor(l)
            /\ status' = [status EXCEPT ![l] = "Contacted"]
       \/ \E p \in Procs :
            /\ pc[p] = "status" /\ lead[p] \in LeadIds
            /\ status' = [status EXCEPT ![lead[p]] = "Replied"]]_vars

\* one lead was set to Contacted by a send and the other to Replied by sync
C23_Witness ==
  /\ \E l \in LeadIds : status[l] = "Contacted" /\ SentRows(l) # {}
  /\ \E l \in LeadIds :
       /\ status[l] = "Replied"
       /\ \E i \in ReceivedRows : emails[i].leadId = l

\* the sum of the per-lead counters
RECURSIVE SumOver(_, _)
SumOver(f, keys) ==
  IF keys = {} THEN 0
  ELSE LET k == CHOOSE x \in keys : TRUE
       IN  f[k] + SumOver(f, keys \ {k})

\* C24: under any sequence of increment, clearLead and reset, unreadTotal is
\* the sum of the per-lead counters and no counter is negative.
C24_TotalIsSum ==
  /\ unreadTotal = SumOver(perLeadUnread, DOMAIN perLeadUnread)
  /\ unreadTotal >= 0
  /\ \A l \in DOMAIN perLeadUnread : perLeadUnread[l] >= 0

\* two leads have unread replies after a third one's were cleared
C24_Witness ==
  /\ Cardinality(DOMAIN perLeadUnread) = 2
  /\ \E l \in DOMAIN perLeadUnread : perLeadUnread[l] >= 2
  /\ unreadTotal >= 3
  /\ clicked.count > 0 /\ clicked.leadId \notin DOMAIN perLeadUnread

\* C25: clearLead(L) removes L's count, lowers unreadTotal by exactly that
\* count, leaves every other lead's count as it was, and a second clearLead(L)
\* changes nothing.
C25_ClearLeadFrame ==
  [][\A l \in StoreLeads :
       HandleLeadClick(l) =>
         /\ l \notin DOMAIN perLeadUnread'
         /\ unreadTotal' = unreadTotal - unreadOf(l)
         /\ \A o \in StoreLeads \ {l} :
              /\ (o \in DOMAIN perLeadUnread') = (o \in DOMAIN perLeadUnread)
              /\ o \in DOMAIN perLeadUnread => perLeadUnread'[o] = perLeadUnread[o]
         /\ LET once == [unreadTotal |-> unreadTotal',
                         perLeadUnread |-> perLeadUnread']
            IN  clearLead(once, l) = once]_vars

\* a lead with several unread replies was cleared by a click while another
\* lead keeps its own
C25_Witness ==
  /\ clicked = [leadId |-> "L1", count |-> 2]
  /\ "L1" \notin DOMAIN perLeadUnread
  /\ "L2" \in DOMAIN perLeadUnread
  /\ perLeadUnread["L2"] = 2
  /\ unreadTotal = 2

\* the provider call reported success to the route
ReportedSuccess(provider, configured, net, smtpNet) ==
  IF provider = "sendgrid"
  THEN sendEmailViaSendGridAuto(configured, net, smtpNet).success
  ELSE ~configured \/ net # "throw"

\* the provider configurations and network outcomes of a send
ProviderCases ==
  {c \in [provider : Providers, configured : BOOLEAN,
          net : GraphNet \cup GridNet, smtpNet : GridNet] :
     c.net \in (IF c.provider = "sendgrid" THEN GridNet ELSE GraphNet)}

\* what the route makes of the cases in which the provider reported a
\* failure, and of those in which it reported success
FailedOutcomes ==
  {routeOutcome(c.provider, c.configured, c.net, c.smtpNet) :
     c \in {x \in ProviderCases :
              ~ReportedSuccess(x.provider, x.configured, x.net, x.smtpNet)}}

SucceededOutcomes ==
  {routeOutcome(c.provider, c.configured, c.net, c.smtpNet) :
     c \in {x \in ProviderCases :
              ReportedSuccess(x.provider, x.configured, x.net, x.smtpNet)}}

\* C26: a send-email request that is rejected (no such lead, subject or body
\* missing) or whose provider send fails stores no Email and changes no
\* status; a sent Email is stored only after the provider reported success.
C26_FailedSendStoresNothing ==
  [][(emails' # emails \/ status' # status) =>
       /\ \A l \in LeadIds \cup {"L9"}, o \in SendOutcomes :
            /\ ~SendEmail(l, FALSE, o)
            /\ l \notin LeadIds => ~SendEmail(l, TRUE, o)
       /\ \A l \in LeadIds, o \in FailedOutcomes : ~SendEmail(l, TRUE, o)
       /\ \A l \in LeadIds :
            SentStoredFor(l) =>
              \E o \in SucceededOutcomes \cup {"nostatus"} : SendEmail(l, TRUE, o)]_vars

\* a send-email request was answered with an error and nothing is stored
C26_Witness ==
  /\ sendResp \in {400, 404, 500}
  /\ \A l \in LeadIds : SentRows(l) = {} /\ status[l] # "Contacted"

\* C27: a pass writes a Lead's status only for a message it has just saved:
\* a pass with saved = 0 changes no status, so a status a user set after a
\* reply is not set back to Replied by passes over the same messages.
C27_NoSaveNoStatusChange ==
  [][\A p \in Procs :
       (pc[p] # "idle" /\ pc'[p] # pc[p] /\ status' # status) =>
         /\ pc[p] = "status"
         /\ savedCount[p] > 0
         /\ status' = [status EXCEPT ![lead[p]] = "Replied"]
         /\ Cardinality(StoredFor(newEmails[p][idx[p]].id)) = 1]_vars

\* a lead has replied and a user has set another status; a pass over the same
\* message has matched it, saved nothing and left the status alone
C27_Witness ==
  /\ AtRespond(1)
  /\ savedCount[1] = 0
  /\ matchedCount[1] > 0
  /\ \E l \in LeadIds :
       /\ status[l] \in UserStatuses
       /\ \E i \in ReceivedRows : emails[i].leadId = l

\* C28: the poller's last-seen timestamp never decreases from one handled
\* poll to the next, whatever the feed returned.
C28_LastCheckMonotone ==
  [][loaded => lastCheck' >= lastCheck]_vars

\* the API send was rejected by SendGrid with 401 or 403
AuthorizationFailure(configured, net) ==
  configured /\ net \in {"autherr", "authquiet"}

\* C29: with the transport unset or auto the API send is tried first and the
\* SMTP send is attempted exactly when the API send failed with an
\* authorization error, its result then being the one returned; with api or
\* smtp only that transport is attempted.
C29_AutoTransport ==
  gridResult # NoGrid =>
    LET g == gridResult
    IN  /\ Len(g.attempts) \in 1..2
        /\ g.transport = "api" => g.attempts = <<"api">>
        /\ g.transport = "smtp" => g.attempts = <<"smtp">>
        /\ g.transport = "auto" =>
             /\ g.attempts[1] = "api"
             /\ (Len(g.attempts) = 2) = AuthorizationFailure(g.configured, g.net)
             /\ Len(g.attempts) = 2 =>
                  /\ g.attempts[2] = "smtp"
                  /\ g.result = sendEmailViaSendGridSMTP(g.configured, g.smtpNet)

\* C30: getAccessToken returns the cached token only while the time is before
\* its recorded expiry; otherwise it acquires a token and replaces token and
\* expiry together; a failed acquisition returns null and leaves both as they
\* were.
C30_TokenCache ==
  /\ [](cachedAccessToken # NoTokenId =>
          /\ cachedAccessToken \in DOMAIN issued
          /\ tokenExpiry = issued[cachedAccessToken])
  /\ [](\A p \in Procs :
          handed[p].from = "cache" =>
            /\ handed[p].token \in DOMAIN issued
            /\ handed[p].at < issued[handed[p].token])
  /\ [][\A p \in Procs :
          (tokenPc[p] = "idle" /\ tokenPc'[p] = "acquiring") =>
            ~(cachedAccessToken # NoTokenId /\ tokenExpiry # NoExpiry
                /\ clock < tokenExpiry)]_vars
  /\ [][\A p \in Procs :
          (tokenPc[p] = "acquiring" /\ tokenPc'[p] = "idle") =>
            \/ /\ handed'[p].token # NoTokenId
               /\ handed'[p].token \notin DOMAIN issued
               /\ cachedAccessToken' = handed'[p].token
               /\ tokenExpiry' # NoExpiry /\ tokenExpiry' > clock
            \/ /\ handed'[p].token = NoTokenId
               /\ cachedAccessToken' = cachedAccessToken
               /\ tokenExpiry' = tokenExpiry]_vars

\* a cached token was handed out, it expired, a caller then acquired a second
\* token, and another acquisition has failed since with the cache kept
C30_Witness ==
  /\ cachedAccessToken = 2
  /\ clock >= issued[1]
  /\ \E p, q \in Procs :
       /\ p # q
       /\ handed[p].from = "cache"
       /\ handed[q].from \in {"throw", "notoken"}

====
